---- MODULE Spec2Model ----
(***************************************************************************)
(* Path resolution and cache core of django-flexible-pages.                *)
(*                                                                         *)
(* Python values are tagged records ([type |-> ...]) so that the dynamic   *)
(* tests of the code (isinstance, == -1, is None) can be evaluated.        *)
(* Strings that the code inspects character by character (paths) are       *)
(* sequences of one-character strings.                                     *)
(***************************************************************************)
EXTENDS Integers, Sequences, FiniteSets, TLC

\* ------------------------------------------------------------------ bounds

\* Number of request/worker threads of the host process.
NumProcs == 2
\* Rows ever inserted into the pages table (auto-increment primary keys).
MaxPk == 2
\* Number of calls a run of the single-threaded specifications makes.
MaxOps == 4
\* Number of calls the threads of the concurrent specification start.
MaxConcOps == 3
\* Saturation value of the ghost counters (calls of a run, queries of a run).
MaxCount == 3
\* Number of saves and deletes of the long-running specification.
MaxWrites == 2
\* Longest string handed to the validator on its own.
MaxLen == 3

Procs == 1..NumProcs

\* ------------------------------------------------------------------ values

\* Python's None.
None == [type |-> "NoneType"]

\* PageManager.CACHE_404_VALUE
CACHE_404_VALUE == -1
\* PageManager.CACHE_TIMEOUT == 2*60
CACHE_TIMEOUT == 120

PyInt(n) == [type |-> "int", v |-> n]
PyBool(b) == [type |-> "bool", v |-> b]

\* Exceptions raised out of a call.
DoesNotExist    == [type |-> "DoesNotExist"]
ValidationError == [type |-> "ValidationError"]
IntegrityError  == [type |-> "IntegrityError"]
CacheError      == [type |-> "CacheError"]
IndexError      == [type |-> "IndexError"]

\* A Page instance: the columns the resolution core reads.
PageObj(pk, url, view) == [type |-> "Page", pk |-> pk, url |-> url, view |-> view]

\* isinstance(x, self.model)
IsPage(x) == x.type = "Page"

\* ------------------------------------------------------------------ paths

Root   == <<"/">>
PathAB == <<"/", "a", "b", "/">>
PathBA == <<"/", "b", "a", "/">>
PathUp == <<"/", "A", "/">>

\* Url values that only writes are tried with: '/' followed by a newline,
\* and a path with a '..' segment as in test_url_normalization.
PathNL   == <<"/", "\n">>
PathDots == <<"/", "p", "/", ".", ".", "/", "p", "/">>

\* The request paths and url values the model draws its inputs from.
PathSet == {Root, PathAB, PathBA, PathUp}

Lower  == {"a", "b", "c", "d", "e", "f", "g", "h", "i", "j", "k", "l", "m",
           "n", "o", "p", "q", "r", "s", "t", "u", "v", "w", "x", "y", "z"}
Digits == {"0", "1", "2", "3", "4", "5", "6", "7", "8", "9"}
\* The character class [a-z0-9\-] of ROOT_RELATIVE_URL_REGEX.
SegChars == Lower \cup Digits \cup {"-"}

\* /([a-z0-9\-]+/)* matched against the whole of s.
RegexBody(s) ==
    /\ Len(s) >= 1
    /\ s[1] = "/"
    /\ s[Len(s)] = "/"
    /\ \A i \in 1..Len(s) : s[i] \in SegChars \cup {"/"}
    /\ \A i \in 1..(Len(s) - 1) : ~(s[i] = "/" /\ s[i + 1] = "/")

\* ROOT_RELATIVE_URL_REGEX.match(value): Python's $ matches at the end of the
\* string and also just before a newline that ends the string.
RegexMatch(value) ==
    \/ RegexBody(value)
    \/ /\ Len(value) >= 1
       /\ value[Len(value)] = "\n"
       /\ RegexBody(SubSeq(value, 1, Len(value) - 1))

is_root_relative_url(value) == RegexMatch(value)

\* ------------------------------------------------------------- cache keys

\* ASCII codes of the characters of PathSet.
Ord(c) ==
    CASE c = "/" -> 47
      [] c = "a" -> 97
      [] c = "b" -> 98
      [] c = "A" -> 65
      [] c = "\n" -> 10
      [] OTHER -> 63

\* Size of the digest space.  hashlib.sha224 has 2^224 values; the model
\* keeps the digest a deterministic function of the bytes of the path but
\* narrows it to one byte, so that the collisions the code guards against
\* are reachable.
DigestSpace == 256

RECURSIVE ByteSum(_)
ByteSum(s) == IF s = <<>> THEN 0 ELSE Ord(Head(s)) + ByteSum(Tail(s))

\* hashlib.sha224(path): the digest as a number.
sha224(path) == ByteSum(path) % DigestSpace

HexDigit(n) == SubSeq(<<"0", "1", "2", "3", "4", "5", "6", "7", "8", "9",
                        "a", "b", "c", "d", "e", "f">>, n + 1, n + 1)

\* .hexdigest(): two lowercase hex digits per byte.
hexdigest(d) == HexDigit(d \div 16) \o HexDigit(d % 16)

KEY_PREFIX == "flexible_page_url_"

\* Page.get_key_for_path
get_key_for_path(path) == <<KEY_PREFIX>> \o hexdigest(sha224(path))

\* All cache keys the model's paths derive.
Keys == {get_key_for_path(p) : p \in PathSet}

\* ------------------------------------------------------------------ views

CUSTOM_VIEW      == "mock_project.test_app.views.custom_view"
NONEXISTENT_VIEW == "mock_project.test_app.views.nonexistent_view"
HOMEPAGE_VIEW    == "mock_project.test_app.views.homepage_view"
DEFAULT_PAGE_VIEW == "pages.views.default_page_view"

\* Values of the view column: "" stands for both None and the empty string
\* (blank=True, null=True), which the code tells apart nowhere.
Views == {"", CUSTOM_VIEW, NONEXISTENT_VIEW}

\* The handlers an identifier can be imported as (django get_callable).
LoadableViews == {CUSTOM_VIEW, HOMEPAGE_VIEW}

\* ------------------------------------------------------------------ state

VARIABLES
    db,          \* the pages table: a set of Page rows
    next_pk,     \* the table's auto-increment counter
    cache,       \* django.core.cache.cache: key -> [value, timeout]
    pc,          \* per thread: the statement it is about to execute
    frame,       \* per thread: the locals of its current (or last) call
    calls_left,  \* number of calls the threads may still start
    streak,      \* history: the current run of undisturbed get_for_url(p) calls
    prev,        \* history: the call completed before the current one
    written_for  \* history: per cache key, the path whose lookup wrote the entry

vars == <<db, next_pk, cache, pc, frame, calls_left, streak, prev, written_for>>

NoPath == <<>>
\* written_for of a key whose entry has timed out and was not written since.
TimedOut == <<"timed out">>
Unset  == [type |-> "unset"]

\* The locals of a call, before they are assigned.
NewFrame(op, pk, url, view) ==
    [op |-> op, pk |-> pk, url |-> url, view |-> view,
     cache_value |-> Unset, page |-> Unset, result |-> Unset,
     queries |-> 0, cache_ops |-> 0, logged |-> FALSE, old_url |-> NoPath,
     cont |-> "done", cms_match |-> Unset, handler |-> "", resolves |-> 0,
     after_timeout |-> FALSE]

IdleFrame == NewFrame("none", 0, NoPath, "")

NoStreak == [path |-> NoPath, n |-> 0, queries |-> 0, results |-> {}]
NoPrev   == [op |-> "none", url |-> NoPath, row |-> Unset]

Resting(self) == pc[self] \in {"idle", "done"}

Inc(n) == IF n < MaxCount THEN n + 1 ELSE MaxCount

\* A key with nothing stored under it, and a stored entry.
NoEntry == [type |-> "absent"]
Entry(value, timeout) == [type |-> "entry", value |-> value, timeout |-> timeout]

\* cache.get(key, default)
cache_get(key, default) ==
    IF cache[key] = NoEntry THEN default ELSE cache[key].value

\* Mutant: the entry is stored without the timeout it was given.
cache_set_forever(key, value, timeout) ==
    [cache EXCEPT ![key] = Entry(value, 0)]

\* cache.set(key, value, timeout)
cache_set(key, value, timeout) ==
    [cache EXCEPT ![key] = Entry(value, timeout)]

\* Mutant: entries never go away.
cache_delete_kept(key) == cache

\* cache.delete(key)
cache_delete(key) == [k \in DOMAIN cache |-> IF k = key THEN NoEntry ELSE cache[k]]

\* self.get_query_set().filter(url=path)[:1][0]
QueryByUrl(path) ==
    IF \E r \in db : r.url = path
    THEN CHOOSE r \in db : r.url = path
    ELSE IndexError

\* The process after start-up: an empty table, an empty cache, idle threads.
InitWith(calls) ==
    /\ db = {}
    /\ next_pk = 1
    /\ cache = [k \in Keys |-> NoEntry]
    /\ pc = [p \in Procs |-> "idle"]
    /\ frame = [p \in Procs |-> IdleFrame]
    /\ calls_left = calls
    /\ streak = NoStreak
    /\ prev = NoPrev
    /\ written_for = [k \in Keys |-> NoPath]

\* ------------------------------------------------------- history variables

OthersResting(self) == \A o \in Procs \ {self} : Resting(o)

\* What is remembered of a completed call when the thread starts the next.
Summary(f) ==
    [op  |-> IF f.result = None THEN f.op ELSE "none",
     url |-> IF f.result = None THEN f.url ELSE NoPath,
     row |-> IF f.op = "save" /\ f.result = None
             THEN PageObj(f.pk, f.url, f.view) ELSE Unset]

PrevAtCall(self) == IF pc[self] = "done" THEN Summary(frame[self]) ELSE NoPrev

\* A run of get_for_url(path) calls goes on while the same path is asked for
\* and nothing else happens; any other call starts no run.
StreakAtCall(self, path) ==
    IF OthersResting(self) /\ streak.path = path THEN streak
    ELSE IF OthersResting(self) THEN [NoStreak EXCEPT !.path = path]
    ELSE NoStreak

Tracked(self) == streak.path # NoPath /\ streak.path = frame[self].url
                 /\ frame[self].op = "get_for_url"

StreakAtReturn(self, result) ==
    IF Tracked(self)
    THEN [streak EXCEPT !.n = Inc(@), !.results = @ \cup {result}]
    ELSE streak

\* The call of thread self ends with result (returned or raised).
\* A get_for_url made inside a request hands over to its caller (f.cont).
Return(self, f, result) ==
    /\ pc' = [pc EXCEPT ![self] = f.cont]
    /\ frame' = [frame EXCEPT ![self] = [f EXCEPT !.result = result]]

\* ------------------------------------------------- PageManager.get_for_url

\* Mutant: the guard only turns away the empty path.
get_for_url_rejects_empty(path) == path = NoPath

\* get_for_url's guard: the path cannot be a stored url.
get_for_url_rejects(path) == ~is_root_relative_url(path)

\* get_for_url, lines 96-108: the guard, then on to get_from_cache.
EnterGetForUrl(self, path) ==
    /\ Resting(self)
    /\ prev' = PrevAtCall(self)
    /\ IF get_for_url_rejects(path)
       THEN /\ Return(self, NewFrame("get_for_url", 0, path, ""), DoesNotExist)
            /\ streak' = NoStreak
       ELSE /\ pc' = [pc EXCEPT ![self] = "get_from_cache"]
            /\ frame' = [frame EXCEPT ![self] = NewFrame("get_for_url", 0, path, "")]
            /\ streak' = StreakAtCall(self, path)
    /\ UNCHANGED <<db, next_pk, cache, written_for>>

\* A call that counts against the budget of calls.
CallGetForUrl(self, path) ==
    /\ calls_left > 0
    /\ calls_left' = calls_left - 1
    /\ EnterGetForUrl(self, path)

\* A call of a reader that goes on for as long as the process lives.
ReadGetForUrl(self, path) ==
    /\ UNCHANGED calls_left
    /\ EnterGetForUrl(self, path)

\* Mutant: the marker is compared with 0.
is_cached_404_zero(cache_value) ==
    cache_value.type = "int" /\ cache_value.v = 0

\* cache_value == self.CACHE_404_VALUE
is_cached_404(cache_value) ==
    cache_value.type = "int" /\ cache_value.v = CACHE_404_VALUE

\* Mutant: the url of the cached page is not compared.
url_matches_any(cache_value, path) == TRUE

\* cache_value.url == path
url_matches(cache_value, path) == cache_value.url = path

\* get_from_cache, lines 46-79: read the cache and act on what is there.
GetFromCache(self) ==
    /\ pc[self] = "get_from_cache"
    /\ LET f    == frame[self]
           v    == cache_get(get_key_for_path(f.url), None)
           g    == [f EXCEPT !.cache_value = v, !.cache_ops = Inc(@),
                             !.after_timeout =
                                 (written_for[get_key_for_path(f.url)] = TimedOut)]
           live == IF Tracked(self) /\ streak.n = 0 /\ v # None
                   THEN NoStreak ELSE streak
       IN  IF is_cached_404(v)
           THEN /\ Return(self, g, DoesNotExist)
                /\ streak' = IF live.path # NoPath /\ Tracked(self)
                             THEN [live EXCEPT !.n = Inc(@),
                                               !.results = @ \cup {DoesNotExist}]
                             ELSE live
           ELSE IF IsPage(v) /\ url_matches(v, f.url)
           THEN /\ Return(self, g, v)
                /\ streak' = IF live.path # NoPath /\ Tracked(self)
                             THEN [live EXCEPT !.n = Inc(@),
                                               !.results = @ \cup {v}]
                             ELSE live
           ELSE /\ pc' = [pc EXCEPT ![self] = "get_from_db"]
                /\ frame' = [frame EXCEPT ![self] = [g EXCEPT !.logged = IsPage(v)]]
                /\ streak' = live
    /\ UNCHANGED <<db, next_pk, cache, calls_left, prev, written_for>>

\* The cache backend raises instead of answering; nothing catches it.
CacheFails(self) ==
    /\ pc[self] \in {"get_from_cache", "cache_set", "log_debug",
                     "save_cache_delete", "delete_cache_delete"}
    /\ Return(self, [frame[self] EXCEPT !.cache_ops = Inc(@)], CacheError)
    /\ streak' = NoStreak
    /\ UNCHANGED <<db, next_pk, cache, calls_left, prev, written_for>>

\* The host gives the request up (timeout, shutdown) while its thread is
\* between two statements of get_for_url; the call goes no further.
Cancelled == [type |-> "Cancelled"]

Cancel(self) ==
    /\ pc[self] \in {"get_from_cache", "get_from_db", "cache_set", "log_debug"}
    /\ frame[self].cont = "done"
    /\ Return(self, frame[self], Cancelled)
    /\ streak' = NoStreak
    /\ UNCHANGED <<db, next_pk, cache, calls_left, prev, written_for>>

\* Mutant: the query creates the row it does not find (get_or_create).
GetFromDb_or_create(self) ==
    /\ pc[self] = "get_from_db"
    /\ pc' = [pc EXCEPT ![self] = "cache_set"]
    /\ frame' = [frame EXCEPT ![self].page = QueryByUrl(frame[self].url),
                              ![self].queries = Inc(@)]
    /\ db' = IF QueryByUrl(frame[self].url) = IndexError
             THEN db \cup {PageObj(next_pk, frame[self].url, "")} ELSE db
    /\ UNCHANGED <<next_pk, cache, calls_left, streak, prev, written_for>>

\* get_from_db, line 23: the query.
GetFromDb(self) ==
    /\ pc[self] = "get_from_db"
    /\ pc' = [pc EXCEPT ![self] = "cache_set"]
    /\ frame' = [frame EXCEPT ![self].page = QueryByUrl(frame[self].url),
                              ![self].queries = Inc(@)]
    /\ streak' = IF Tracked(self) THEN [streak EXCEPT !.queries = Inc(@)] ELSE streak
    /\ UNCHANGED <<db, next_pk, cache, calls_left, prev, written_for>>

\* Mutant: a query that found no row stores None instead of the marker.
value_to_cache_pages_only(page) == IF page = IndexError THEN None ELSE page

\* Mutant: a page is stored before its columns are loaded.
value_to_cache_partial(page) ==
    IF page = IndexError THEN PyInt(CACHE_404_VALUE) ELSE Unset

\* Mutant: the 404 marker is stored whatever the query found.
value_to_cache_404(page) == PyInt(CACHE_404_VALUE)

\* The value get_from_db stores for the outcome of its query.
value_to_cache(page) == IF page = IndexError THEN PyInt(CACHE_404_VALUE) ELSE page

\* get_from_db, lines 26 and 34: cache.set(path_key, ..., self.CACHE_TIMEOUT)
CacheSet(self) ==
    /\ pc[self] = "cache_set"
    /\ LET f == frame[self]
           k == get_key_for_path(f.url)
       IN  /\ cache' = cache_set(k, value_to_cache(f.page), CACHE_TIMEOUT)
           /\ written_for' = [written_for EXCEPT ![k] = f.url]
           /\ frame' = [frame EXCEPT ![self].cache_ops = Inc(@)]
    /\ pc' = [pc EXCEPT ![self] = "log_debug"]
    /\ UNCHANGED <<db, next_pk, calls_left, streak, prev>>

\* get_from_db, lines 27-38: the cache.get that is an argument of log.debug,
\* then the raise or the return.
LogDebug(self) ==
    /\ pc[self] = "log_debug"
    /\ LET f == [frame[self] EXCEPT !.cache_ops = Inc(@)]
           r == IF f.page = IndexError THEN DoesNotExist ELSE f.page
       IN  /\ Return(self, f, r)
           /\ streak' = StreakAtReturn(self, r)
    /\ UNCHANGED <<db, next_pk, cache, calls_left, prev, written_for>>

\* The timeout of the entry under key k has elapsed.
Expire(k) ==
    /\ cache[k] # NoEntry
    /\ cache' = cache_delete(k)
    /\ written_for' = [written_for EXCEPT ![k] = TimedOut]
    /\ streak' = NoStreak
    /\ UNCHANGED <<db, next_pk, pc, frame, calls_left, prev>>

\* ------------------------------------------------------- view resolution

\* A loaded view callable.
Function(name) == [type |-> "function", name |-> name]

\* django get_callable(self.view): the callable, or ViewDoesNotExist.
get_callable_raises(view) == view \notin LoadableViews

\* The exception get_callable raises for an identifier it cannot import.
ViewDoesNotExist == [type |-> "ViewDoesNotExist"]

\* Mutant: the except clause around get_callable is missing.
get_custom_view_uncaught(view) ==
    IF view = "" THEN None
    ELSE IF get_callable_raises(view) THEN ViewDoesNotExist
    ELSE Function(view)

\* Page.get_custom_view
get_custom_view(view) ==
    IF view # "" /\ ~get_callable_raises(view) THEN Function(view) ELSE None

AdminPath == <<"/", "a", "d", "m", "i", "n", "/">>

\* django resolve(self.url) against mock_project.urls.urlpatterns: the
\* leading slash is consumed by the root resolver, then r'^admin/' and r'^$'
\* are tried in order ($ also matches before a final newline).
urlpatterns_resolve(url) ==
    IF url = NoPath \/ Head(url) # "/" THEN None
    ELSE IF Tail(url) = Tail(AdminPath) THEN Function("django.contrib.admin.site.index")
    ELSE IF Tail(url) \in {<<>>, <<"\n">>} THEN Function(HOMEPAGE_VIEW)
    ELSE None

\* Page.get_urlpattern_view
get_urlpattern_view(url) == urlpatterns_resolve(url)

\* Python's `a or b` on values that are None or callables.
Or(a, b) == IF a # None THEN a ELSE b

\* Mutant: the static route is tried before the custom view.
get_view_route_first(page) ==
    Or(get_urlpattern_view(page.url),
       Or(get_custom_view(page.view), Function(DEFAULT_PAGE_VIEW)))

\* Page.get_view
get_view(page) ==
    Or(get_custom_view(page.view),
       Or(get_urlpattern_view(page.url), Function(DEFAULT_PAGE_VIEW)))

\* The urls of the in-memory instances get_view is called on.
ViewPathSet == PathSet \cup {AdminPath}

\* page.get_view() on an instance built in memory, Page(url=..., view=...).
CallGetView(self, url, view) ==
    /\ Resting(self)
    /\ calls_left > 0
    /\ calls_left' = calls_left - 1
    /\ prev' = PrevAtCall(self)
    /\ streak' = NoStreak
    /\ Return(self, NewFrame("get_view", 0, url, view), get_view(PageObj(0, url, view)))
    /\ UNCHANGED <<db, next_pk, cache, written_for>>

\* --------------------------------------------------------------- Page.save

\* Creations started and not yet written.
PendingInserts ==
    Cardinality({p \in Procs : /\ pc[p] \in {"full_clean", "super_save"}
                               /\ frame[p].pk = 0})

CallSave(self, pk, url, view) ==
    /\ Resting(self)
    /\ calls_left > 0
    /\ pk = 0 \/ \E r \in db : r.pk = pk
    /\ pk = 0 => next_pk + PendingInserts <= MaxPk
    /\ calls_left' = calls_left - 1
    /\ prev' = PrevAtCall(self)
    /\ streak' = NoStreak
    /\ pc' = [pc EXCEPT ![self] = "full_clean"]
    /\ frame' = [frame EXCEPT ![self] = NewFrame("save", pk, url, view)]
    /\ UNCHANGED <<db, next_pk, cache, written_for>>

\* validators.root_relative_url raises
root_relative_url_raises(value) == ~is_root_relative_url(value)

\* Page.validate_view raises
validate_view_raises(view) == view # "" /\ get_custom_view(view) = None

\* Model.validate_unique on the unique url column raises
validate_unique_raises(pk, url) == \E r \in db : r.url = url /\ r.pk # pk

\* self.full_clean(): clean_fields, clean, validate_unique.
full_clean_raises(pk, url, view) ==
    \/ root_relative_url_raises(url)
    \/ validate_view_raises(view)
    \/ validate_unique_raises(pk, url)

\* Mutant: the cache entry of the url is deleted before validation.
FullClean_invalidating(self) ==
    /\ pc[self] = "full_clean"
    /\ LET f == frame[self]
       IN  /\ IF full_clean_raises(f.pk, f.url, f.view)
              THEN Return(self, f, ValidationError)
              ELSE /\ pc' = [pc EXCEPT ![self] = "super_save"]
                   /\ frame' = frame
           /\ cache' = [k \in DOMAIN cache |->
                           IF k = get_key_for_path(f.url) THEN NoEntry ELSE cache[k]]
    /\ UNCHANGED <<db, next_pk, calls_left, streak, prev, written_for>>

FullClean(self) ==
    /\ pc[self] = "full_clean"
    /\ LET f == frame[self]
       IN  IF full_clean_raises(f.pk, f.url, f.view)
           THEN Return(self, f, ValidationError)
           ELSE /\ pc' = [pc EXCEPT ![self] = "super_save"]
                /\ frame' = frame
    /\ UNCHANGED <<db, next_pk, cache, calls_left, streak, prev, written_for>>

\* The url the row of pk holds now (NoPath without such a row).
UrlOfPk(pk) ==
    IF \E r \in db : r.pk = pk THEN (CHOOSE r \in db : r.pk = pk).url ELSE NoPath

\* super(Page, self).save(): UPDATE the row of the pk, or INSERT; the unique
\* index on url refuses a second row of the same url.
SuperSave(self) ==
    /\ pc[self] = "super_save"
    /\ LET f  == frame[self]
           pk == IF f.pk = 0 THEN next_pk ELSE f.pk
       IN  IF \E r \in db : r.url = f.url /\ r.pk # pk
           THEN /\ Return(self, f, IntegrityError)
                /\ UNCHANGED <<db, next_pk>>
           ELSE /\ db' = {r \in db : r.pk # pk} \cup {PageObj(pk, f.url, f.view)}
                /\ next_pk' = IF f.pk = 0 THEN next_pk + 1 ELSE next_pk
                /\ pc' = [pc EXCEPT ![self] = "save_cache_delete"]
                /\ frame' = [frame EXCEPT ![self].pk = pk,
                                          ![self].old_url = UrlOfPk(pk)]
    /\ UNCHANGED <<cache, calls_left, streak, prev, written_for>>

\* Mutant: the entry of the row's former url is deleted instead.
save_paths_to_clear_old(url, old_url) == {old_url}

\* The paths whose cache entries Page.save deletes.
save_paths_to_clear(url, old_url) == {url}

\* Page.save, line 88: cache.delete(Page.get_key_for_path(self.url))
SaveCacheDelete(self) ==
    /\ pc[self] = "save_cache_delete"
    /\ LET f  == frame[self]
           ks == {get_key_for_path(p) : p \in save_paths_to_clear(f.url, f.old_url)}
       IN  /\ cache' = [k \in DOMAIN cache |-> IF k \in ks THEN NoEntry ELSE cache[k]]
           /\ written_for' = [k \in DOMAIN cache |->
                                 IF k \in ks THEN NoPath ELSE written_for[k]]
           /\ Return(self, [f EXCEPT !.cache_ops = Inc(@)], None)
    /\ UNCHANGED <<db, next_pk, calls_left, streak, prev>>

\* ------------------------------------------------------------- Page.delete

\* page.delete() on an instance as loaded from the table.
CallDelete(self, row) ==
    /\ Resting(self)
    /\ calls_left > 0
    /\ row \in db
    /\ calls_left' = calls_left - 1
    /\ prev' = PrevAtCall(self)
    /\ streak' = NoStreak
    /\ pc' = [pc EXCEPT ![self] = "super_delete"]
    /\ frame' = [frame EXCEPT ![self] = NewFrame("delete", row.pk, row.url, row.view)]
    /\ UNCHANGED <<db, next_pk, cache, written_for>>

\* super(Page, self).delete(): DELETE the row of the pk.
SuperDelete(self) ==
    /\ pc[self] = "super_delete"
    /\ db' = {r \in db : r.pk # frame[self].pk}
    /\ pc' = [pc EXCEPT ![self] = "delete_cache_delete"]
    /\ frame' = [frame EXCEPT ![self].old_url = UrlOfPk(frame[self].pk)]
    /\ UNCHANGED <<next_pk, cache, calls_left, streak, prev, written_for>>

\* Mutant: the cache is left alone.
delete_paths_to_clear_none(path_to_clear) == {}

\* The paths whose cache entries Page.delete deletes.
delete_paths_to_clear(path_to_clear) == {path_to_clear}

\* Page.delete, line 80: cache.delete(Page.get_key_for_path(path_to_clear))
DeleteCacheDelete(self) ==
    /\ pc[self] = "delete_cache_delete"
    /\ LET f  == frame[self]
           ks == {get_key_for_path(p) : p \in delete_paths_to_clear(f.url)}
       IN  /\ cache' = [k \in DOMAIN cache |-> IF k \in ks THEN NoEntry ELSE cache[k]]
           /\ written_for' = [k \in DOMAIN cache |->
                                 IF k \in ks THEN NoPath ELSE written_for[k]]
           /\ Return(self, [f EXCEPT !.cache_ops = Inc(@)], None)
    /\ UNCHANGED <<db, next_pk, calls_left, streak, prev>>

\* ------------------------------------------ validators.is_root_relative_url

\* Accepted characters and rejected ones: uppercase, underscore, dot, newline.
Alphabet == {"/", "a", "0", "-", "A", "_", ".", "\n"}

\* Every string over Alphabet of at most MaxLen characters.
Strings == UNION {[1..n -> Alphabet] : n \in 0..MaxLen}

\* is_root_relative_url(value) called on its own.
CallIsRootRelativeUrl(self, value) ==
    /\ Resting(self)
    /\ calls_left > 0
    /\ calls_left' = calls_left - 1
    /\ prev' = PrevAtCall(self)
    /\ streak' = NoStreak
    /\ Return(self, NewFrame("is_root_relative_url", 0, value, ""),
              PyBool(is_root_relative_url(value)))
    /\ UNCHANGED <<db, next_pk, cache, written_for>>

\* ------------------------------------------- PageMiddleware.process_request

AttributeError == [type |-> "AttributeError"]

\* What the views return: a plain HttpResponse, which has no is_rendered
\* attribute, or the TemplateResponse of a generic class-based view.
HttpResponse(content) == [type |-> "HttpResponse", content |-> content]
TemplateResponse(object, is_rendered) ==
    [type |-> "TemplateResponse", object |-> object, is_rendered |-> is_rendered]

\* process_request, lines 10-11: Page.objects.get_for_url(request.path)
CallProcessRequest(self, path) ==
    /\ Resting(self)
    /\ calls_left > 0
    /\ calls_left' = calls_left - 1
    /\ prev' = PrevAtCall(self)
    /\ streak' = NoStreak
    /\ LET f == [NewFrame("process_request", 0, path, "")
                    EXCEPT !.cont = "mw_resolved", !.resolves = 1]
       IN  IF get_for_url_rejects(path)
           THEN Return(self, f, DoesNotExist)
           ELSE /\ pc' = [pc EXCEPT ![self] = "get_from_cache"]
                /\ frame' = [frame EXCEPT ![self] = f]
    /\ UNCHANGED <<db, next_pk, cache, written_for>>

\* Mutant: a matching route makes the middleware give up whatever the view
\* field says.
mw_gives_up_on_route(cms_match) == get_urlpattern_view(cms_match.url) # None

\* process_request, line 18
mw_gives_up(cms_match) ==
    get_custom_view(cms_match.view) = None /\ get_urlpattern_view(cms_match.url) # None

\* process_request, lines 13-21: the two early returns. The frame keeps what
\* get_for_url gave, the page or the exception, as cms_match.
MwResolved(self) ==
    /\ pc[self] = "mw_resolved"
    /\ LET f == [frame[self] EXCEPT !.cont = "done", !.result = Unset]
           r == frame[self].result
           g == [f EXCEPT !.cms_match = r]
       IN  IF r = DoesNotExist THEN Return(self, g, None)
           ELSE IF ~IsPage(r) THEN Return(self, g, r)
           ELSE IF mw_gives_up(r) THEN Return(self, g, None)
           ELSE /\ pc' = [pc EXCEPT ![self] = "get_response"]
                /\ frame' = [frame EXCEPT ![self] = g]
    /\ UNCHANGED <<db, next_pk, cache, calls_left, streak, prev, written_for>>

\* process_request, line 26: cms_match.get_response(request). Page defines
\* get_rendered_content and no get_response; its base class ContentArea is
\* outside the repository. Either the attribute is missing, or the base class
\* has it and it delegates to the view as get_rendered_content does.
GetResponse(self) ==
    /\ pc[self] = "get_response"
    /\ \E has_attr \in BOOLEAN :
          IF has_attr
          THEN /\ pc' = [pc EXCEPT ![self] = "call_view"]
               /\ frame' = [frame EXCEPT ![self].handler =
                                             get_view(frame[self].cms_match).name]
          ELSE Return(self, frame[self], AttributeError)
    /\ UNCHANGED <<db, next_pk, cache, calls_left, streak, prev, written_for>>

\* view(request, flexible_page=self) for a function view or a plain View:
\* an HttpResponse comes back, and line 30 reads its is_rendered.
CallPlainView(self) ==
    /\ pc[self] = "call_view"
    /\ frame[self].handler # DEFAULT_PAGE_VIEW
    /\ Return(self, frame[self], AttributeError)
    /\ UNCHANGED <<db, next_pk, cache, calls_left, streak, prev, written_for>>

\* view(request, flexible_page=self) for default_page_view: as_view passes
\* the keyword on to get(), the attribute flexible_page stays None, and
\* get_object -> get_flexible_page asks get_for_url(self.request.path).
CallDefaultView(self) ==
    /\ pc[self] = "call_view"
    /\ frame[self].handler = DEFAULT_PAGE_VIEW
    /\ LET f == [frame[self] EXCEPT !.cont = "view_resolved", !.resolves = Inc(@)]
       IN  IF get_for_url_rejects(f.url)
           THEN Return(self, f, DoesNotExist)
           ELSE /\ pc' = [pc EXCEPT ![self] = "get_from_cache"]
                /\ frame' = [frame EXCEPT ![self] = f]
    /\ UNCHANGED <<db, next_pk, cache, calls_left, streak, prev, written_for>>

\* The rest of the default view and process_request, lines 30-33: the
\* TemplateResponse of the object is rendered and returned; an exception of
\* get_for_url leaves the view and the middleware.
ViewResolved(self) ==
    /\ pc[self] = "view_resolved"
    /\ LET f == [frame[self] EXCEPT !.cont = "done"]
           r == frame[self].result
       IN  IF IsPage(r)
           THEN Return(self, f, TemplateResponse(r, TRUE))
           ELSE Return(self, f, r)
    /\ UNCHANGED <<db, next_pk, cache, calls_left, streak, prev, written_for>>

\* ---------------------------------------------------------- specifications

Init == InitWith(MaxOps)

Pks == 0..MaxPk

Step(self) ==
    \/ \E path \in PathSet : CallGetForUrl(self, path)
    \/ GetFromCache(self)
    \/ GetFromDb(self)
    \/ CacheSet(self)
    \/ LogDebug(self)
    \/ \E pk \in Pks, url \in PathSet, view \in Views : CallSave(self, pk, url, view)
    \/ FullClean(self)
    \/ SuperSave(self)
    \/ SaveCacheDelete(self)
    \/ \E row \in db : CallDelete(self, row)
    \/ SuperDelete(self)
    \/ DeleteCacheDelete(self)

\* Any number of threads, interleaved statement by statement; the cache
\* backend answers every request.
Next ==
    \/ \E self \in Procs : Step(self)
    \/ \E k \in Keys : Expire(k)

InitConc == InitWith(MaxConcOps)

Spec == InitConc /\ [][Next]_vars

\* One thread: every call returns before the next starts.
Main == CHOOSE p \in Procs : TRUE

NextSeq ==
    \/ Step(Main)
    \/ \E k \in Keys : Expire(k)

SpecSeq == Init /\ [][NextSeq]_vars

\* One thread, and a cache backend that may raise on any request.
NextFault ==
    \/ Step(Main)
    \/ CacheFails(Main)
    \/ \E k \in Keys : Expire(k)

SpecFault == Init /\ [][NextFault]_vars

\* View selection on in-memory instances.
NextView ==
    \E self \in Procs, url \in ViewPathSet, view \in Views : CallGetView(self, url, view)

SpecView == Init /\ [][NextView]_vars

\* Requests through the middleware.
StepMw(self) ==
    \/ \E path \in PathSet : CallProcessRequest(self, path)
    \/ GetFromCache(self)
    \/ GetFromDb(self)
    \/ CacheSet(self)
    \/ LogDebug(self)
    \/ MwResolved(self)
    \/ GetResponse(self)
    \/ CallPlainView(self)
    \/ CallDefaultView(self)
    \/ ViewResolved(self)
    \/ \E pk \in Pks, url \in PathSet, view \in Views : CallSave(self, pk, url, view)
    \/ FullClean(self)
    \/ SuperSave(self)
    \/ SaveCacheDelete(self)
    \/ \E row \in db : CallDelete(self, row)
    \/ SuperDelete(self)
    \/ DeleteCacheDelete(self)

\* One request at a time, between saves and deletes.
NextMwSeq ==
    \/ StepMw(Main)
    \/ \E k \in Keys : Expire(k)

SpecMwSeq == Init /\ [][NextMwSeq]_vars

\* Requests on several threads, interleaved with saves and deletes.
NextMw ==
    \/ \E self \in Procs : StepMw(self)
    \/ \E k \in Keys : Expire(k)

SpecMw == InitConc /\ [][NextMw]_vars

\* The url values of the pages that are written.
StorePathSet == PathSet \cup {PathNL, PathDots}

\* Saves and deletes in sequence.
NextStore ==
    \/ \E pk \in Pks, url \in StorePathSet, view \in Views : CallSave(Main, pk, url, view)
    \/ FullClean(Main)
    \/ SuperSave(Main)
    \/ SaveCacheDelete(Main)
    \/ \E row \in db : CallDelete(Main, row)
    \/ SuperDelete(Main)
    \/ DeleteCacheDelete(Main)

SpecStore == Init /\ [][NextStore]_vars

\* The urls of the long-running process: valid, with distinct cache keys.
LivePathSet == {Root, PathAB}

\* Statements inside a call; a thread that is in a call gets to run them.
Run(self) ==
    \/ GetFromCache(self)
    \/ GetFromDb(self)
    \/ CacheSet(self)
    \/ LogDebug(self)
    \/ FullClean(self)
    \/ SuperSave(self)
    \/ SaveCacheDelete(self)
    \/ SuperDelete(self)
    \/ DeleteCacheDelete(self)

\* Readers that never stop, and saves and deletes that do.
NextLive ==
    \/ \E self \in Procs : Run(self)
    \/ \E self \in Procs, path \in LivePathSet : ReadGetForUrl(self, path)
    \/ \E self \in Procs, pk \in Pks, url \in LivePathSet : CallSave(self, pk, url, "")
    \/ \E self \in Procs, row \in db : CallDelete(self, row)
    \/ \E k \in Keys : Expire(k)

InitLive == InitWith(MaxWrites)

\* Every thread in a call goes on running (the host schedules its threads),
\* and the timeout of every entry elapses (time passes).
FairLive ==
    /\ \A self \in Procs : WF_vars(Run(self))
    /\ \A k \in Keys : WF_vars(Expire(k))

SpecLive == InitLive /\ [][NextLive]_vars /\ FairLive

\* Tables that earlier saves have left: rows with valid, distinct urls.
ReaderTables ==
    {{}, {PageObj(1, Root, "")}, {PageObj(1, PathAB, CUSTOM_VIEW)},
     {PageObj(1, Root, ""), PageObj(2, PathAB, CUSTOM_VIEW)}}

InitReaders ==
    /\ db \in ReaderTables
    /\ next_pk = Cardinality(db) + 1
    /\ cache = [k \in Keys |-> NoEntry]
    /\ pc = [p \in Procs |-> "idle"]
    /\ frame = [p \in Procs |-> IdleFrame]
    /\ calls_left = MaxConcOps
    /\ streak = NoStreak
    /\ prev = NoPrev
    /\ written_for = [k \in Keys |-> NoPath]

\* Threads that only look pages up, over a table nobody writes.
NextReaders ==
    \/ \E self \in Procs, path \in LivePathSet : ReadGetForUrl(self, path)
    \/ \E self \in Procs : GetFromCache(self)
    \/ \E self \in Procs : GetFromDb(self)
    \/ \E self \in Procs : CacheSet(self)
    \/ \E self \in Procs : LogDebug(self)
    \/ \E k \in Keys : Expire(k)

SpecReaders == InitReaders /\ [][NextReaders]_vars

\* One thread whose lookups the host may give up.
NextCancel ==
    \/ Step(Main)
    \/ Cancel(Main)
    \/ \E k \in Keys : Expire(k)

SpecCancel == Init /\ [][NextCancel]_vars

\* Lookups only, over every path of the model: '/ab/' and '/ba/' have the
\* same cache key.
NextCollide ==
    \/ \E path \in PathSet : ReadGetForUrl(Main, path)
    \/ GetFromCache(Main)
    \/ GetFromDb(Main)
    \/ CacheSet(Main)
    \/ LogDebug(Main)
    \/ \E k \in Keys : Expire(k)

SpecCollide == InitReaders /\ [][NextCollide]_vars

\* The cache keys of every url that is written.
StoreKeys == {get_key_for_path(p) : p \in StorePathSet}

InitStoreKeys ==
    /\ db = {}
    /\ next_pk = 1
    /\ cache = [k \in StoreKeys |-> NoEntry]
    /\ pc = [p \in Procs |-> "idle"]
    /\ frame = [p \in Procs |-> IdleFrame]
    /\ calls_left = MaxOps
    /\ streak = NoStreak
    /\ prev = NoPrev
    /\ written_for = [k \in StoreKeys |-> NoPath]

\* One thread that writes pages and looks up every url it may have written.
NextLookupStored ==
    \/ \E path \in StorePathSet : CallGetForUrl(Main, path)
    \/ GetFromCache(Main)
    \/ GetFromDb(Main)
    \/ CacheSet(Main)
    \/ LogDebug(Main)
    \/ \E pk \in Pks, url \in StorePathSet : CallSave(Main, pk, url, "")
    \/ FullClean(Main)
    \/ SuperSave(Main)
    \/ SaveCacheDelete(Main)
    \/ \E row \in db : CallDelete(Main, row)
    \/ SuperDelete(Main)
    \/ DeleteCacheDelete(Main)
    \/ \E k \in StoreKeys : Expire(k)

SpecLookupStored == InitStoreKeys /\ [][NextLookupStored]_vars

\* The validator applied to strings.
NextValidator == \E value \in Strings : CallIsRootRelativeUrl(Main, value)

SpecValidator == Init /\ [][NextValidator]_vars

\* ------------------------------------------------------------------ claims

\* The outcome of resolve(path) that the table as it is now prescribes.
StoreOutcome(path) ==
    IF QueryByUrl(path) = IndexError THEN DoesNotExist ELSE QueryByUrl(path)

MainDone(op) == pc[Main] = "done" /\ frame[Main].op = op

\* C1: in a run of n >= 1 consecutive get_for_url(p) calls that starts from
\* an empty cache entry for p, with p valid and its page in the table, and
\* with no save, delete, expiry or cache failure in between, exactly one
\* query is made in total and every call returns the page of the table.
C1_OneQueryPerRun ==
    (/\ streak.n >= 1
     /\ is_root_relative_url(streak.path)
     /\ QueryByUrl(streak.path) # IndexError)
    => (/\ streak.queries = 1
        /\ streak.results = {QueryByUrl(streak.path)})

C1_Witness ==
    /\ streak.n >= 3
    /\ QueryByUrl(streak.path) # IndexError
    /\ streak.queries = 1
    /\ pc[Main] = "done"

\* C2: in such a run for a valid path p with no page in the table, the first
\* call raises DoesNotExist after one query and leaves the 404 marker under
\* the key of p; every further call raises DoesNotExist without a query.
C2_NegativeCached ==
    (/\ streak.n >= 1
     /\ is_root_relative_url(streak.path)
     /\ QueryByUrl(streak.path) = IndexError)
    => (/\ streak.queries = 1
        /\ streak.results = {DoesNotExist}
        /\ cache_get(get_key_for_path(streak.path), None) = PyInt(CACHE_404_VALUE))

C2_Witness ==
    /\ streak.n >= 2
    /\ is_root_relative_url(streak.path)
    /\ QueryByUrl(streak.path) = IndexError
    /\ frame[Main].queries = 0
    /\ pc[Main] = "done"

C4_SaveInvalidates ==
    /\ (MainDone("save") /\ frame[Main].result = None)
       => cache[get_key_for_path(frame[Main].url)] = NoEntry
    /\ (MainDone("get_for_url") /\ prev.op = "save" /\ prev.url = frame[Main].url)
       => (/\ frame[Main].queries = 1
           /\ frame[Main].result = prev.row
           /\ prev.row \in db)

\* A page was cached, then saved with another view, then resolved again.
C4_Witness ==
    /\ MainDone("get_for_url")
    /\ prev.op = "save"
    /\ prev.url = frame[Main].url
    /\ prev.row.view = CUSTOM_VIEW
    /\ frame[Main].result = prev.row
    /\ calls_left = 0

\* C5: when a delete has returned (one thread), no page is cached under the
\* key of the deleted page's url; and a get_for_url of that url that follows
\* the delete makes exactly one query and raises DoesNotExist.
C5_DeleteInvalidates ==
    /\ (MainDone("delete") /\ frame[Main].result = None)
       => ~IsPage(cache_get(get_key_for_path(frame[Main].url), None))
    /\ (MainDone("get_for_url") /\ prev.op = "delete" /\ prev.url = frame[Main].url)
       => (/\ frame[Main].queries = 1
           /\ frame[Main].result = DoesNotExist)

\* A page was cached, then deleted, then resolved again.
C5_Witness ==
    /\ MainDone("get_for_url")
    /\ prev.op = "delete"
    /\ prev.url = frame[Main].url
    /\ frame[Main].result = DoesNotExist
    /\ calls_left = 0

\* C6: when a save that moved a page from one url to another has succeeded,
\* nothing is cached under the key of the former url nor under the key of
\* the new one.
C6_BothPathsInvalidated ==
    (/\ MainDone("save")
     /\ frame[Main].result = None
     /\ frame[Main].old_url # NoPath
     /\ frame[Main].old_url # frame[Main].url)
    => (/\ cache[get_key_for_path(frame[Main].old_url)] = NoEntry
        /\ cache[get_key_for_path(frame[Main].url)] = NoEntry)

\* The entry under the key of path was written by a lookup of path and is
\* not what a lookup of path would store now.
StaleFor(path) ==
    LET k == get_key_for_path(path)
    IN  /\ cache[k] # NoEntry
        /\ written_for[k] = path
        /\ cache[k].value # value_to_cache(QueryByUrl(path))

\* C7: once a save or delete of the page at p has completed, while the other
\* threads only resolve, the cache holds no entry for p that differs from
\* the table, whatever the interleaving.
C7_NoStaleEntryAfterWrite ==
    \A w \in Procs :
        (/\ pc[w] = "done"
         /\ frame[w].op \in {"save", "delete"}
         /\ frame[w].result = None
         /\ \A o \in Procs \ {w} : frame[o].op \in {"none", "get_for_url"})
        => ~StaleFor(frame[w].url)

\* The cache held a page of another url under the key of the path asked for.
Collided(f) == IsPage(f.cache_value) /\ f.cache_value.url # f.url

\* C8: a get_for_url that finds a page of another url under its key never
\* returns that page: it logs an error, makes one query and returns what the
\* table holds for the path asked for.
C8_CollisionFallsThrough ==
    (MainDone("get_for_url") /\ Collided(frame[Main]))
    => (/\ frame[Main].logged
        /\ frame[Main].queries = 1
        /\ frame[Main].result = StoreOutcome(frame[Main].url)
        /\ frame[Main].result # frame[Main].cache_value)

C8_Witness ==
    /\ MainDone("get_for_url")
    /\ Collided(frame[Main])
    /\ IsPage(frame[Main].result)
    /\ frame[Main].result.url = frame[Main].url

\* C9: no failure of the cache backend reaches the caller of get_for_url:
\* every call ends with a page or with DoesNotExist.
C9_CacheFailureNotFatal ==
    MainDone("get_for_url") => frame[Main].result.type \in {"Page", "DoesNotExist"}

\* The static routes of the project: url -> view.
StaticRoute(url) ==
    IF url = Root THEN HOMEPAGE_VIEW
    ELSE IF url = AdminPath THEN "django.contrib.admin.site.index"
    ELSE ""

\* C10: get_view returns the custom view when the view field names a
\* loadable one, even on a url a static route matches; otherwise the view of
\* the static route matching the url; otherwise the default view.
C10_ViewPrecedence ==
    \A self \in Procs :
        (pc[self] = "done" /\ frame[self].op = "get_view")
        => LET f == frame[self]
           IN  /\ f.view = CUSTOM_VIEW => f.result = Function(CUSTOM_VIEW)
               /\ (f.view # CUSTOM_VIEW /\ StaticRoute(f.url) # "")
                  => f.result = Function(StaticRoute(f.url))
               /\ (f.view # CUSTOM_VIEW /\ StaticRoute(f.url) = "")
                  => f.result = Function(DEFAULT_PAGE_VIEW)

\* Custom view and static route together; static route alone; neither.
C10_Witness ==
    /\ pc[1] = "done" /\ frame[1].op = "get_view"
    /\ frame[1].url = Root /\ frame[1].view = CUSTOM_VIEW
    /\ frame[1].result = Function(CUSTOM_VIEW)
    /\ pc[2] = "done" /\ frame[2].op = "get_view"
    /\ frame[2].url = Root /\ frame[2].view = ""
    /\ frame[2].result = Function(HOMEPAGE_VIEW)

\* C11: get_view on a page whose view field is unset or names a view that
\* does not load raises nothing: it returns the view of the static route
\* matching the url, or the default view when no route matches.
C11_ViewSelectionTotal ==
    \A self \in Procs :
        (/\ pc[self] = "done"
         /\ frame[self].op = "get_view"
         /\ frame[self].view \notin LoadableViews)
        => (/\ frame[self].result.type = "function"
            /\ frame[self].result.name =
                  IF StaticRoute(frame[self].url) # ""
                  THEN StaticRoute(frame[self].url)
                  ELSE DEFAULT_PAGE_VIEW)

\* An unloadable view on a routed url, and an unloadable view on a free url.
C11_Witness ==
    /\ pc[1] = "done" /\ frame[1].op = "get_view"
    /\ frame[1].url = Root /\ frame[1].view = NONEXISTENT_VIEW
    /\ frame[1].result = Function(HOMEPAGE_VIEW)
    /\ pc[2] = "done" /\ frame[2].op = "get_view"
    /\ frame[2].url = PathAB /\ frame[2].view = NONEXISTENT_VIEW
    /\ frame[2].result = Function(DEFAULT_PAGE_VIEW)

\* C12: process_request returns None, having called no view, exactly when
\* get_for_url(request.path) raised DoesNotExist or the page it gave has no
\* loadable custom view and a static route matches the page's url.
C12_DeclinesExactly ==
    \A self \in Procs :
        (pc[self] = "done" /\ frame[self].op = "process_request")
        => LET f == frame[self]
           IN  /\ f.result = None
                  <=> \/ f.cms_match = DoesNotExist
                      \/ /\ IsPage(f.cms_match)
                         /\ f.cms_match.view \notin LoadableViews
                         /\ StaticRoute(f.cms_match.url) # ""
               /\ f.result = None => f.handler = "" /\ f.resolves = 1

\* A request for a stored page that a static route owns is declined.
C12_Witness ==
    /\ MainDone("process_request")
    /\ IsPage(frame[Main].cms_match)
    /\ frame[Main].cms_match \in db
    /\ frame[Main].result = None

\* C13: a process_request that does not return None called the view that
\* get_view gives for the resolved page, with that page, and returns the
\* view's response, rendered.
C13_HandlerResponseRendered ==
    \A self \in Procs :
        (/\ pc[self] = "done"
         /\ frame[self].op = "process_request"
         /\ frame[self].result # None)
        => LET f == frame[self]
           IN  /\ f.handler = get_view(f.cms_match).name
               /\ \/ f.result.type = "HttpResponse"
                  \/ /\ f.result.type = "TemplateResponse"
                     /\ f.result.is_rendered
                     /\ f.result.object = f.cms_match

\* A string that begins and ends with "/" and whose segments between
\* consecutive slashes are non-empty and made of lowercase letters, digits
\* and hyphens.
WellFormed(s) ==
    /\ s # <<>>
    /\ Head(s) = "/"
    /\ s[Len(s)] = "/"
    /\ \A i \in DOMAIN s : s[i] # "/" => s[i] \in SegChars
    /\ \A i \in DOMAIN s : (i > 1 /\ s[i] = "/") => s[i - 1] # "/"

\* C16: for every string over the alphabet, is_root_relative_url is true
\* exactly for the well-formed strings.
C16_ValidatorIsWellFormedness ==
    MainDone("is_root_relative_url")
    => (frame[Main].result.v <=> WellFormed(frame[Main].url))

\* C14: a save ends with ValidationError exactly when the url is not
\* well-formed, another row has the url, or the view field names a view that
\* does not load; every other save ends without error and the row is stored.
C14_SaveRaisesExactly ==
    MainDone("save")
    => LET f == frame[Main]
       IN  /\ f.result = ValidationError
              <=> \/ ~WellFormed(f.url)
                  \/ \E r \in db : r.url = f.url /\ r.pk # f.pk
                  \/ f.view \notin LoadableViews \cup {""}
           /\ f.result # ValidationError
              => f.result = None /\ PageObj(f.pk, f.url, f.view) \in db

\* C15: whatever saves and deletes were made, every row has a well-formed
\* url, no two rows share a url, and '/p/../p/' is not stored.
C15_StoreValidAndUnique ==
    /\ \A r \in db : WellFormed(r.url)
    /\ \A r1, r2 \in db : r1.url = r2.url => r1 = r2
    /\ \A r \in db : r.url # PathDots

\* C18: every entry get_for_url writes, a page or the 404 marker, carries the
\* timeout CACHE_TIMEOUT of 120 seconds; when the timeout has elapsed the
\* entry is absent, and the next get_for_url of the path finds nothing in
\* the cache and makes one query.
C18_UniformTimeout ==
    /\ \A k \in Keys : cache[k] # NoEntry =>
           cache[k].timeout = CACHE_TIMEOUT /\ cache[k].timeout = 120
    /\ \A k \in Keys : written_for[k] = TimedOut => cache[k] = NoEntry
    /\ (MainDone("get_for_url") /\ frame[Main].after_timeout)
       => (/\ frame[Main].cache_value = None
           /\ frame[Main].queries = 1
           /\ frame[Main].result = StoreOutcome(frame[Main].url))

\* A 404 marker timed out, and the next call queried and wrote it again.
C18_Witness ==
    /\ MainDone("get_for_url")
    /\ frame[Main].after_timeout
    /\ frame[Main].result = DoesNotExist
    /\ cache[get_key_for_path(frame[Main].url)] =
           Entry(PyInt(CACHE_404_VALUE), CACHE_TIMEOUT)

\* C19: a request makes one get_for_url(request.path), in process_request;
\* once that call gave a page, the request neither ends with DoesNotExist
\* nor renders another record than that page.
C19_OneResolutionPerRequest ==
    \A self \in Procs :
        (/\ pc[self] = "done"
         /\ frame[self].op = "process_request"
         /\ IsPage(frame[self].cms_match))
        => LET f == frame[self]
           IN  /\ f.resolves = 1
               /\ f.result # DoesNotExist
               /\ f.result.type = "TemplateResponse" => f.result.object = f.cms_match

\* What get_for_url(path) returns if it runs alone from the state as it is.
WouldReturn(path) ==
    LET v == cache_get(get_key_for_path(path), None)
    IN  IF v.type = "int" /\ v.v = -1 THEN DoesNotExist
        ELSE IF v.type = "Page" /\ v.url = path THEN v
        ELSE StoreOutcome(path)

Consistent == \A path \in LivePathSet : WouldReturn(path) = StoreOutcome(path)

\* C20: once saves and deletes have ceased (their number is bounded) and
\* with every timeout elapsing, from some moment on and for ever
\* get_for_url(p) returns for every valid path p what the table holds for p:
\* its row, or DoesNotExist.
C20_EventuallyConsistent == <>[]Consistent

\* All writes are over and the cache still answers for a path with something
\* the table does not hold.
C20_Witness ==
    /\ calls_left = 0
    /\ \A self \in Procs : Resting(self)
    /\ ~Consistent

\* The entry a lookup of path stores for what the table holds.
EntryFor(path) ==
    Entry(IF StoreOutcome(path) = DoesNotExist
          THEN PyInt(CACHE_404_VALUE) ELSE StoreOutcome(path),
          CACHE_TIMEOUT)

\* C21: with threads calling get_for_url(p) at the same time and no save or
\* delete, every call returns what the table holds for p and makes at most
\* one query, whatever entry the cache holds for p is the one for that
\* outcome, and it is there once a call has ended (until it times out).
C21_ConcurrentResolves ==
    /\ \A self \in Procs :
           (pc[self] = "done" /\ frame[self].op = "get_for_url")
           => (/\ frame[self].result = StoreOutcome(frame[self].url)
               /\ frame[self].queries <= 1)
    /\ \A path \in LivePathSet :
           LET k == get_key_for_path(path)
           IN  /\ cache[k] # NoEntry => cache[k] = EntryFor(path)
               /\ (/\ \E self \in Procs : pc[self] = "done" /\ frame[self].url = path
                   /\ written_for[k] # TimedOut)
                  => cache[k] # NoEntry

\* Two calls for the same path both missed the cache and both queried; the
\* entry of the one outcome is in the cache.
C21_Witness ==
    /\ \A self \in Procs :
           /\ pc[self] = "done"
           /\ frame[self].url = PathAB
           /\ frame[self].queries = 1
           /\ IsPage(frame[self].result)
    /\ cache[get_key_for_path(PathAB)] = EntryFor(PathAB)

\* C22: the statements of get_for_url up to the return of the query leave
\* the cache as it is, so a call given up before that has written nothing;
\* and every entry that appears in the cache is stored by a call whose query
\* has returned, and holds the row the query gave or the 404 marker.
C22_WritesAfterLookup ==
    [][/\ \A self \in Procs :
              (pc[self] \in {"get_from_cache", "get_from_db"} /\ pc'[self] # pc[self])
              => cache' = cache
       /\ \A k \in Keys :
              (cache'[k] # cache[k] /\ cache'[k] # NoEntry)
              => \E self \in Procs :
                     /\ pc[self] = "cache_set"
                     /\ frame[self].queries = 1
                     /\ k = get_key_for_path(frame[self].url)
                     /\ \/ /\ frame[self].page = IndexError
                           /\ cache'[k].value = PyInt(CACHE_404_VALUE)
                        \/ /\ IsPage(frame[self].page)
                           /\ frame[self].page \in db
                           /\ cache'[k].value = frame[self].page]_vars

\* A call given up after its cache read and before its query: nothing is
\* stored for its path.
C22_Witness ==
    /\ MainDone("get_for_url")
    /\ frame[Main].result = Cancelled
    /\ frame[Main].cache_ops = 1
    /\ frame[Main].queries = 0
    /\ QueryByUrl(frame[Main].url) # IndexError
    /\ cache[get_key_for_path(frame[Main].url)] = NoEntry

\* The thread makes a step of a request or of a lookup.
RequestStep(self) ==
    /\ <<pc'[self], frame'[self]>> # <<pc[self], frame[self]>>
    /\ frame'[self].op \in {"process_request", "get_for_url"}

\* C23: no statement of process_request, of the view it calls or of
\* get_for_url writes to the table: the rows after a request are the rows
\* before it.
C23_RequestsLeaveStore ==
    [][\A self \in Procs :
           RequestStep(self) => (db' = db /\ next_pk' = next_pk)]_vars

\* A request that queried the table for a stored page and went on to the
\* view.
C23_Witness ==
    /\ MainDone("process_request")
    /\ frame[Main].queries = 1
    /\ frame[Main].cms_match \in db
    /\ frame[Main].result # None

\* C24: a save that ends with ValidationError has written nothing: from its
\* call to the raise, the table and every cache entry stay as they were.
C24_FailedSaveChangesNothing ==
    [][\A self \in Procs :
           (/\ <<pc'[self], frame'[self]>> # <<pc[self], frame[self]>>
            /\ frame'[self].op = "save"
            /\ \/ pc'[self] = "full_clean"
               \/ pc'[self] = "done" /\ frame'[self].result = ValidationError)
           => (db' = db /\ next_pk' = next_pk /\ cache' = cache)]_vars

\* A save refused for a well-formed url whose entry is still in the cache.
C24_Witness ==
    /\ MainDone("save")
    /\ frame[Main].result = ValidationError
    /\ is_root_relative_url(frame[Main].url)
    /\ IsPage(cache_get(get_key_for_path(frame[Main].url), None))

\* C25: while the table holds a page at a valid path and nobody saves or
\* deletes, get_for_url of that path returns that page whatever earlier
\* lookups left in the cache, lookups of a pageless path with the same key
\* included.
C25_StoredPageAlwaysFound ==
    (/\ MainDone("get_for_url")
     /\ is_root_relative_url(frame[Main].url)
     /\ QueryByUrl(frame[Main].url) # IndexError)
    => frame[Main].result = QueryByUrl(frame[Main].url)

\* C26: every entry in the cache is the 404 marker or a page whose url is a
\* well-formed path with the key the entry is stored under.
C26_EntriesWellKeyed ==
    \A k \in DOMAIN cache :
        cache[k] # NoEntry
        => \/ cache[k].value = PyInt(CACHE_404_VALUE)
           \/ /\ IsPage(cache[k].value)
              /\ get_key_for_path(cache[k].value.url) = k
              /\ WellFormed(cache[k].value.url)

====
